---- MODULE Spec2Model ----
(***************************************************************************)
(* Model of BirthdayParadox_v03.py: the Monte Carlo driver                 *)
(* simulate_birthday_paradox and the functions it calls                    *)
(* (get_random_birthdays, find_duplicate_birthdays, display_birthdays,     *)
(* summarize_matches).                                                     *)
(*                                                                         *)
(* A date is a record [year, month, day], as datetime.date holds it.  The  *)
(* random source is nondeterministic: random.randint(a, b) may return any  *)
(* integer of a..b.  probability is an exact fraction [num, den].          *)
(***************************************************************************)
EXTENDS Integers, Sequences, FiniteSets, TLC

VARIABLES
    num_people,       \* argument of simulate_birthday_paradox
    num_simulations,  \* argument of simulate_birthday_paradox
    randHi,           \* upper argument of random.randint: 364 in the source
    pc,               \* position of the call in simulate_birthday_paradox
    i,                \* loop variable; -1 while not yet bound
    totalMatches,     \* local of simulate_birthday_paradox
    birthdays,        \* local of simulate_birthday_paradox
    birthdaysBound,   \* whether the local birthdays has been assigned
    found,            \* last value returned by find_duplicate_birthdays
    birthday_counts,  \* dictionary returned by display_birthdays
    matchesSummary,   \* dictionary built by summarize_matches
    result,           \* << >>, or <<the returned tuple>>
    error,            \* "none", or the name of the exception raised
    out,              \* what has been printed, in order
    matchTrials,      \* history: trial indices for which the detector returned TRUE
    genCalls,         \* history: number of calls of get_random_birthdays
    aggCalls,         \* history: number of calls of display_birthdays
    aggInput,         \* history: argument of the last call of display_birthdays
    aggGen            \* history: genCalls when display_birthdays was last called

vars ==
    << num_people, num_simulations, randHi, pc, i, totalMatches, birthdays,
       birthdaysBound, found, birthday_counts, matchesSummary, result, error,
       out, matchTrials, genCalls, aggCalls, aggInput, aggGen >>

(***************************************************************************)
(* Bounds of the model                                                     *)
(***************************************************************************)
\* Length of the scaled year used by the runs with several people: randint
\* then ranges over 0..DaysInYear-1 in place of 0..364.
DaysInYear == 3

\* Largest group of the scaled-year runs: one more than the days of the year.
MaxPeople == DaysInYear + 1

\* Largest num_simulations of the runs with several people.
MaxSims == 2

\* Largest group of the runs over the full year 0..364.
MaxFullPeople == 1

\* num_simulations of the long run, which passes trial index 10000.
LongRun == 10001

(***************************************************************************)
(* Program constants                                                       *)
(***************************************************************************)
\* datetime.date(2001, 1, 1)
BaseYear == 2001

\* random.randint(0, 364)
LastOffset == 364

\* if i % 10000 == 0
ProgressEvery == 10000

MONTHS ==
    << "January", "February", "March", "April", "May", "June",
       "July", "August", "September", "October", "November", "December" >>

(***************************************************************************)
(* datetime.date and datetime.timedelta                                    *)
(***************************************************************************)
IsLeap(y) == (y % 4 = 0 /\ y % 100 # 0) \/ y % 400 = 0

DaysInMonth(y, m) ==
    IF m = 2 THEN (IF IsLeap(y) THEN 29 ELSE 28)
    ELSE IF m \in {4, 6, 9, 11} THEN 30 ELSE 31

Date(y, m, d) == [year |-> y, month |-> m, day |-> d]

\* date + timedelta(n), n >= 0: walks month by month.
RECURSIVE DatePlus(_, _)
DatePlus(date, n) ==
    LET len == DaysInMonth(date.year, date.month) IN
    IF date.day + n <= len
    THEN Date(date.year, date.month, date.day + n)
    ELSE DatePlus(IF date.month = 12
                  THEN Date(date.year + 1, 1, 1)
                  ELSE Date(date.year, date.month + 1, 1),
                  n - (len - date.day + 1))

\* date < date, as datetime.date compares.
DateLess(a, b) ==
    \/ a.year < b.year
    \/ a.year = b.year /\ a.month < b.month
    \/ a.year = b.year /\ a.month = b.month /\ a.day < b.day

(***************************************************************************)
(* get_random_birthdays                                                    *)
(***************************************************************************)
randint_wide(a, b) == a .. (b + 1)

\* random.randint(a, b): any integer of a..b.
randint(a, b) == a .. b

\* The dates one element of the list comprehension may evaluate to:
\* datetime.date(2001, 1, 1) + datetime.timedelta(random.randint(0, randHi)).
RandomDates == { DatePlus(Date(BaseYear, 1, 1), k) : k \in randint(0, randHi) }

\* The lists get_random_birthdays(num_birthdays) may return;
\* range(num_birthdays) is empty for num_birthdays <= 0.
get_random_birthdays(num_birthdays) == [ 1 .. num_birthdays -> RandomDates ]

(***************************************************************************)
(* find_duplicate_birthdays                                                *)
(***************************************************************************)
\* collections.Counter(seq): each distinct element with its tally.
Counter(seq) ==
    [ x \in { seq[p] : p \in DOMAIN seq } |->
        Cardinality({ p \in DOMAIN seq : seq[p] = x }) ]

find_duplicate_birthdays_first_only(birthdays_) ==
    LET birthday_counts_ == Counter(birthdays_) IN
    birthdays_ # << >> /\ birthday_counts_[birthdays_[1]] > 1

find_duplicate_birthdays_above_two(birthdays_) ==
    LET birthday_counts_ == Counter(birthdays_) IN
    \E b \in DOMAIN birthday_counts_ : birthday_counts_[b] > 2

find_duplicate_birthdays(birthdays_) ==
    LET birthday_counts_ == Counter(birthdays_) IN
    \E b \in DOMAIN birthday_counts_ : birthday_counts_[b] > 1

(***************************************************************************)
(* display_birthdays                                                       *)
(***************************************************************************)
\* d[key] += 1 on a defaultdict(int).
Increment_reset(d, key) ==
    [ k \in DOMAIN d \cup {key} |-> IF k = key THEN 1 ELSE d[k] ]

Increment(d, key) ==
    [ k \in DOMAIN d \cup {key} |->
        IF k = key THEN (IF key \in DOMAIN d THEN d[key] ELSE 0) + 1
        ELSE d[k] ]

\* The loop "for birthday in birthdays_list: birthday_counts_[birthday] += 1"
\* from position p on.
RECURSIVE CountFrom(_, _, _)
CountFrom(birthdays_list, p, birthday_counts_) ==
    IF p > Len(birthdays_list) THEN birthday_counts_
    ELSE CountFrom(birthdays_list, p + 1,
                   Increment(birthday_counts_, birthdays_list[p]))

\* The dictionary display_birthdays returns.
display_birthdays(birthdays_list) == CountFrom(birthdays_list, 1, << >>)

\* One printed line: its kind, its text argument and its numeric arguments.
Line(ev, text, a, b) == [ev |-> ev, text |-> text, a |-> a, b |-> b]

\* sorted(...) of a set of dates, ascending.
RECURSIVE SortedDates(_)
SortedDates(S) ==
    IF S = {} THEN << >>
    ELSE LET first == CHOOSE x \in S : \A y \in S \ {x} : DateLess(x, y)
         IN  << first >> \o SortedDates(S \ {first})

\* sorted(...) of a set of integers, ascending.
RECURSIVE SortedInts(_)
SortedInts(S) ==
    IF S = {} THEN << >>
    ELSE LET first == CHOOSE x \in S : \A y \in S : x <= y
         IN  << first >> \o SortedInts(S \ {first})

\* What display_birthdays prints: one line per date, sorted by date, then an
\* empty line.
display_lines(birthday_counts_) ==
    LET sorted_birthdays == SortedDates(DOMAIN birthday_counts_) IN
    [ p \in DOMAIN sorted_birthdays |->
        LET birthday == sorted_birthdays[p] IN
        Line("count", MONTHS[birthday.month - 1 + 1], birthday.day,
             birthday_counts_[birthday]) ]
    \o << Line("blank", "", 0, 0) >>

(***************************************************************************)
(* summarize_matches                                                       *)
(***************************************************************************)
Tally_every(matchesSummary_, count) == Increment(matchesSummary_, count)

\* if count > 1: matchesSummary[count] += 1
Tally(matchesSummary_, count) ==
    IF count > 1 THEN Increment(matchesSummary_, count) ELSE matchesSummary_

\* The loop "for count in birthdays.values()" over the keys still to visit.
RECURSIVE SummaryFrom(_, _, _)
SummaryFrom(birthdays_, keys, matchesSummary_) ==
    IF keys = {} THEN matchesSummary_
    ELSE LET k == CHOOSE x \in keys : TRUE
         IN  SummaryFrom(birthdays_, keys \ {k},
                         Tally(matchesSummary_, birthdays_[k]))

\* The dictionary matchesSummary at the end of summarize_matches(birthdays).
summarize_matches(birthdays_) ==
    SummaryFrom(birthdays_, DOMAIN birthdays_, << >>)

\* What summarize_matches prints.
summary_lines(matchesSummary_) ==
    ( IF DOMAIN matchesSummary_ = {}
      THEN << Line("no_matches", "There were no matching birthdays.", 0, 0) >>
      ELSE LET keys == SortedInts(DOMAIN matchesSummary_) IN
           [ p \in DOMAIN keys |->
               LET count == keys[p]
                   numBirthdays == matchesSummary_[count]
               IN  IF numBirthdays = 1
                   THEN Line("one_match", "There is 1 birthday with a match.", 0, 0)
                   ELSE Line("matches", "", numBirthdays, count) ] )
    \o << Line("blank", "", 0, 0) >>

(***************************************************************************)
(* simulate_birthday_paradox                                               *)
(***************************************************************************)
range_short(n) == 0 .. (n - 2)

\* range(n): empty for n <= 0.
range(n) == 0 .. (n - 1)

ShouldReport_after(i_) == (i_ + 1) % ProgressEvery = 0

\* if i % 10000 == 0
ShouldReport(i_) == i_ % ProgressEvery = 0

CountMatch_always(totalMatches_, found_) == totalMatches_ + 1

\* if find_duplicate_birthdays(birthdays) is not False: totalMatches += 1
CountMatch(totalMatches_, found_) ==
    IF found_ # FALSE THEN totalMatches_ + 1 ELSE totalMatches_

\* totalMatches / num_simulations * 100, as an exact fraction.
Percent(totalMatches_, num_simulations_) ==
    [num |-> totalMatches_ * 100, den |-> num_simulations_]

\* Calls with groups of -1..MaxPeople people over a year of DaysInYear days.
ShortRuns ==
    /\ randHi = DaysInYear - 1
    /\ num_people \in -1 .. MaxPeople
    /\ num_simulations \in -1 .. MaxSims

\* Calls with groups of 0..MaxFullPeople people over the full year.
FullYearRuns ==
    /\ randHi = LastOffset
    /\ num_people \in 0 .. MaxFullPeople
    /\ num_simulations = 1

\* The call with one person and LongRun trials.
LongRuns ==
    /\ randHi = DaysInYear - 1
    /\ num_people = 1
    /\ num_simulations = LongRun

\* The state in which simulate_birthday_paradox is entered.
Entry ==
    /\ pc = "start"
    /\ i = -1
    /\ totalMatches = 0
    /\ birthdays = << >>
    /\ birthdaysBound = FALSE
    /\ found = FALSE
    /\ birthday_counts = << >>
    /\ matchesSummary = << >>
    /\ result = << >>
    /\ error = "none"
    /\ out = << >>
    /\ matchTrials = {}
    /\ genCalls = 0
    /\ aggCalls = 0
    /\ aggInput = << >>
    /\ aggGen = 0

Init == (ShortRuns \/ FullYearRuns \/ LongRuns) /\ Entry

\* The calls whose state graph is small enough for checking liveness.
InitBrief == ShortRuns /\ Entry

\* Lines 123-125: the announcement, then input() is called.
Start ==
    /\ pc = "start"
    /\ out' = out \o << Line("blank", "", 0, 0),
                        Line("generating", "", num_people, num_simulations),
                        Line("prompt", "Press 'Enter' to begin...", 0, 0) >>
    /\ pc' = "input"
    /\ UNCHANGED << num_people, num_simulations, randHi, i, totalMatches,
                    birthdays, birthdaysBound, found, birthday_counts,
                    matchesSummary, result, error, matchTrials, genCalls,
                    aggCalls, aggInput, aggGen >>

\* Line 125 returns: the user has pressed Enter.  Lines 126 and 128.
PressEnter ==
    /\ pc = "input"
    /\ out' = Append(out, Line("blank", "", 0, 0))
    /\ totalMatches' = 0
    /\ pc' = "for"
    /\ UNCHANGED << num_people, num_simulations, randHi, i, birthdays,
                    birthdaysBound, found, birthday_counts, matchesSummary,
                    result, error, matchTrials, genCalls, aggCalls, aggInput,
                    aggGen >>

\* Line 125 raises: input() meets the end of the input.
InputEOF ==
    /\ pc = "input"
    /\ error' = "EOFError"
    /\ pc' = "raised"
    /\ UNCHANGED << num_people, num_simulations, randHi, i, totalMatches,
                    birthdays, birthdaysBound, found, birthday_counts,
                    matchesSummary, result, out, matchTrials, genCalls,
                    aggCalls, aggInput, aggGen >>

\* Line 129: the for loop binds the next index, or ends.
ForNext ==
    /\ pc = "for"
    /\ IF i + 1 \in range(num_simulations)
       THEN i' = i + 1 /\ pc' = "body"
       ELSE i' = i /\ pc' = "after_loop"
    /\ UNCHANGED << num_people, num_simulations, randHi, totalMatches,
                    birthdays, birthdaysBound, found, birthday_counts,
                    matchesSummary, result, error, out, matchTrials, genCalls,
                    aggCalls, aggInput, aggGen >>

\* Lines 131-132: the progress report.
Report ==
    /\ pc = "body"
    /\ out' = IF ShouldReport(i)
              THEN Append(out, Line("progress", "", i, 0))
              ELSE out
    /\ pc' = "generate"
    /\ UNCHANGED << num_people, num_simulations, randHi, i, totalMatches,
                    birthdays, birthdaysBound, found, birthday_counts,
                    matchesSummary, result, error, matchTrials, genCalls,
                    aggCalls, aggInput, aggGen >>

\* Line 134.
Generate ==
    /\ pc = "generate"
    /\ birthdays' \in get_random_birthdays(num_people)
    /\ birthdaysBound' = TRUE
    /\ genCalls' = genCalls + 1
    /\ pc' = "detect"
    /\ UNCHANGED << num_people, num_simulations, randHi, i, totalMatches,
                    found, birthday_counts, matchesSummary, result, error,
                    out, matchTrials, aggCalls, aggInput, aggGen >>

\* Lines 135-136.
Detect ==
    /\ pc = "detect"
    /\ found' = find_duplicate_birthdays(birthdays)
    /\ totalMatches' = CountMatch(totalMatches, found')
    /\ matchTrials' = IF found' = TRUE THEN matchTrials \cup {i}
                      ELSE matchTrials
    /\ pc' = "for"
    /\ UNCHANGED << num_people, num_simulations, randHi, i, birthdays,
                    birthdaysBound, birthday_counts, matchesSummary, result,
                    error, out, genCalls, aggCalls, aggInput, aggGen >>

\* Lines 138 and 141: the two fixed messages after the loop.
AfterLoop ==
    /\ pc = "after_loop"
    /\ out' = out \o << Line("finished", "100,000 simulations run. ", 0, 0),
                        Line("header", "", 0, 0) >>
    /\ pc' = "display"
    /\ UNCHANGED << num_people, num_simulations, randHi, i, totalMatches,
                    birthdays, birthdaysBound, found, birthday_counts,
                    matchesSummary, result, error, matchTrials, genCalls,
                    aggCalls, aggInput, aggGen >>

\* Line 142 when the loop body never ran: birthdays is not bound.
DisplayUnbound ==
    /\ pc = "display"
    /\ ~birthdaysBound
    /\ error' = "UnboundLocalError"
    /\ pc' = "raised"
    /\ UNCHANGED << num_people, num_simulations, randHi, i, totalMatches,
                    birthdays, birthdaysBound, found, birthday_counts,
                    matchesSummary, result, out, matchTrials, genCalls,
                    aggCalls, aggInput, aggGen >>

\* Line 142: display_birthdays(birthdays), lines 63-81.
Display ==
    /\ pc = "display"
    /\ birthdaysBound
    /\ birthday_counts' = display_birthdays(birthdays)
    /\ out' = out \o display_lines(birthday_counts')
    /\ aggCalls' = aggCalls + 1
    /\ aggInput' = birthdays
    /\ aggGen' = genCalls
    /\ pc' = "summarize"
    /\ UNCHANGED << num_people, num_simulations, randHi, i, totalMatches,
                    birthdays, birthdaysBound, found, matchesSummary, result,
                    error, matchTrials, genCalls >>

\* Line 143: summarize_matches(birthday_counts), lines 93-108.
Summarize ==
    /\ pc = "summarize"
    /\ matchesSummary' = summarize_matches(birthday_counts)
    /\ out' = out \o summary_lines(matchesSummary')
    /\ pc' = "compute"
    /\ UNCHANGED << num_people, num_simulations, randHi, i, totalMatches,
                    birthdays, birthdaysBound, found, birthday_counts, result,
                    error, matchTrials, genCalls, aggCalls, aggInput, aggGen >>

\* Lines 145-146.  num_simulations is not 0 here: with no trial run, line 142
\* has raised.
Return ==
    /\ pc = "compute"
    /\ result' = << [probability |-> Percent(totalMatches, num_simulations),
                     totalMatches |-> totalMatches] >>
    /\ pc' = "returned"
    /\ UNCHANGED << num_people, num_simulations, randHi, i, totalMatches,
                    birthdays, birthdaysBound, found, birthday_counts,
                    matchesSummary, error, out, matchTrials, genCalls,
                    aggCalls, aggInput, aggGen >>

\* The steps the interpreter takes on its own.
ProgramStep ==
    \/ Start
    \/ ForNext
    \/ Report
    \/ Generate
    \/ Detect
    \/ AfterLoop
    \/ DisplayUnbound
    \/ Display
    \/ Summarize
    \/ Return

Next ==
    \/ ProgramStep
    \/ PressEnter
    \/ InputEOF

Spec == Init /\ [][Next]_vars

\* The interpreter keeps running the call; nothing obliges the user to answer
\* the prompt.
FairSpec == InitBrief /\ [][Next]_vars /\ WF_vars(ProgramStep)

(***************************************************************************)
(* Vocabulary of the properties                                            *)
(***************************************************************************)
\* The arguments the driver is specified for.
ValidArgs == num_people >= 1 /\ num_simulations >= 1

\* Day of the year of a date: the days of the months before it, plus its day.
RECURSIVE DaysBefore(_, _)
DaysBefore(y, m) ==
    IF m <= 1 THEN 0 ELSE DaysBefore(y, m - 1) + DaysInMonth(y, m - 1)

DayOfYear(date) == DaysBefore(date.year, date.month) + date.day

\* Some date stands at two positions of seq.
HasRepeat(seq) ==
    \E p, q \in DOMAIN seq : p # q /\ seq[p] = seq[q]

\* Number of positions of seq holding x.
Occurrences(seq, x) == Cardinality({ p \in DOMAIN seq : seq[p] = x })

\* Sum of the values of a dictionary.
RECURSIVE SumValues(_)
SumValues(d) ==
    IF DOMAIN d = {} THEN 0
    ELSE LET k == CHOOSE x \in DOMAIN d : TRUE
         IN  d[k] + SumValues([ x \in DOMAIN d \ {k} |-> d[x] ])

\* seq with positions p and q exchanged.
Swap(seq, p, q) ==
    [ r \in DOMAIN seq |->
        IF r = p THEN seq[q] ELSE IF r = q THEN seq[p] ELSE seq[r] ]

IsProgress(line) == line.ev = "progress"

\* The trial indices of the progress notifications printed so far, in order.
ProgressIndices ==
    LET lines == SelectSeq(out, IsProgress)
    IN  [ k \in DOMAIN lines |-> lines[k].a ]

\* Number of trial indices whose progress check (line 131) has been made.
Checked == IF pc = "body" THEN i ELSE i + 1

\* Number of trials whose detection (lines 135-136) has been made.
Completed == IF pc = "detect" THEN genCalls - 1 ELSE genCalls

(***************************************************************************)
(* Properties                                                              *)
(***************************************************************************)
\* C1: for valid arguments the returned pair has totalMatches in
\* 0..num_simulations, equal to the number of trials for which the detector
\* returned true, and probability = totalMatches / num_simulations * 100,
\* which lies in 0..100.
C1_ResultIsMatchRate ==
    (pc = "returned" /\ ValidArgs) =>
        LET r == result[1] IN
        /\ r.totalMatches \in 0 .. num_simulations
        /\ matchTrials \subseteq 0 .. (num_simulations - 1)
        /\ r.totalMatches = Cardinality(matchTrials)
        /\ r.probability.den > 0
        /\ r.probability.num * num_simulations
             = r.totalMatches * 100 * r.probability.den
        /\ 0 <= r.probability.num
        /\ r.probability.num <= 100 * r.probability.den

\* A run of several trials returned with some but not all trials matching.
C1_Witness ==
    /\ pc = "returned"
    /\ ValidArgs
    /\ num_simulations >= 2
    /\ result[1].totalMatches = 1

\* C3: find_duplicate_birthdays returns true exactly when some date occurs at
\* least twice in the sequence, which is exactly when the occurrence map of
\* display_birthdays holds a value >= 2; it returns false for the empty
\* sequence and for every one-element sequence.
C3_DetectorIffRepeat ==
    (genCalls > 0 /\ pc # "detect") =>
        LET counts == display_birthdays(birthdays) IN
        /\ found = HasRepeat(birthdays)
        /\ found = (\E d \in DOMAIN counts : counts[d] >= 2)
        /\ (Len(birthdays) <= 1 => found = FALSE)

\* The detector has just answered true for a sequence of different dates in
\* which the repeated date is not the first and occurs exactly twice.
C3_Witness ==
    /\ pc = "for"
    /\ genCalls > 0
    /\ found = TRUE
    /\ Len(birthdays) >= 3
    /\ Occurrences(birthdays, birthdays[1]) = 1
    /\ \A p \in DOMAIN birthdays : Occurrences(birthdays, birthdays[p]) <= 2

\* C4: the map returned by display_birthdays has exactly the distinct dates
\* of the trial as keys, maps each to the positive number of positions
\* holding it, its counts sum to the length of the trial, and exchanging any
\* two positions of the trial leaves it unchanged.
C4_OccurrenceMap ==
    (pc = "summarize") =>
        /\ DOMAIN birthday_counts = { aggInput[p] : p \in DOMAIN aggInput }
        /\ \A d \in DOMAIN birthday_counts :
              /\ birthday_counts[d] > 0
              /\ birthday_counts[d] = Occurrences(aggInput, d)
        /\ SumValues(birthday_counts) = Len(aggInput)
        /\ \A p, q \in DOMAIN aggInput :
              display_birthdays(Swap(aggInput, p, q)) = birthday_counts

\* display_birthdays has returned the map of a trial that is not in date
\* order and holds a repeated date next to a single one.
C4_Witness ==
    /\ pc = "summarize"
    /\ Len(aggInput) >= 3
    /\ Cardinality(DOMAIN birthday_counts) >= 2
    /\ \E d \in DOMAIN birthday_counts : birthday_counts[d] >= 2
    /\ \E p \in DOMAIN aggInput :
          p > 1 /\ DateLess(aggInput[p], aggInput[p - 1])

\* C5: the match summary has a key c exactly when c >= 2 and some date has
\* count c, its value at c is the number of distinct dates of count c, the
\* key 1 never appears, and it is empty, with the "no matches" notice
\* printed, exactly when no date has a count >= 2.
C5_MatchSummary ==
    (pc \in {"compute", "returned"}) =>
        LET DatesOfCount(c) ==
                { d \in DOMAIN birthday_counts : birthday_counts[d] = c }
            noticed == \E k \in DOMAIN out : out[k].ev = "no_matches"
            noMatch == \A d \in DOMAIN birthday_counts : birthday_counts[d] < 2
        IN
        /\ \A c \in DOMAIN matchesSummary \cup (0 .. Len(aggInput) + 1) :
              /\ c \in DOMAIN matchesSummary <=> (c >= 2 /\ DatesOfCount(c) # {})
              /\ c \in DOMAIN matchesSummary =>
                    matchesSummary[c] = Cardinality(DatesOfCount(c))
        /\ 1 \notin DOMAIN matchesSummary
        /\ (DOMAIN matchesSummary = {}) <=> noMatch
        /\ noticed <=> noMatch

\* summarize_matches has summarised a map with two dates of count 2.
C5_Witness ==
    /\ pc = "compute"
    /\ 2 \in DOMAIN matchesSummary
    /\ matchesSummary[2] = 2

C8_ProgressEvery10000 ==
    LET notified == ProgressIndices IN
    /\ Len(notified) * 10000 < Checked + 10000
    /\ Len(notified) * 10000 >= Checked
    /\ \A k \in DOMAIN notified : notified[k] = (k - 1) * 10000
    /\ \A k \in DOMAIN notified : k > 1 => notified[k - 1] < notified[k]
    /\ genCalls <= Checked
    /\ genCalls >= Checked - 1

\* Trial 10000 has been generated, after the notifications for 0 and 10000.
C8_Witness ==
    /\ pc = "detect"
    /\ i = 10000
    /\ ProgressIndices = << 0, 10000 >>

\* C9: in a run that returns, display_birthdays followed by summarize_matches
\* is called exactly once, after all num_simulations trials have completed
\* and never while trials remain, with the dates generated in the last trial
\* (index num_simulations-1); the aggregation does not change the match
\* counter.
C9_AggregatesLastTrial ==
    /\ [](pc \in {"body", "generate", "detect", "for", "after_loop", "display"}
            => aggCalls = 0)
    /\ [](pc \in {"summarize", "compute", "returned"} =>
            /\ aggCalls = 1
            /\ aggGen = num_simulations
            /\ genCalls = num_simulations
            /\ Completed = num_simulations
            /\ i = num_simulations - 1
            /\ aggInput = birthdays
            /\ birthday_counts = display_birthdays(birthdays))
    /\ [][(pc \in {"display", "summarize"}) => (totalMatches' = totalMatches)]_vars

\* A run of several trials has returned after aggregating a last trial that
\* has no duplicate, while an earlier trial had one.
C9_Witness ==
    /\ pc = "returned"
    /\ num_simulations >= 2
    /\ aggCalls = 1
    /\ totalMatches >= 1
    /\ ~HasRepeat(aggInput)
    /\ Len(aggInput) >= 2

\* C2: with num_people <= 0 or num_simulations <= 0 no trial is generated, no
\* progress notification is printed, no result is returned, and the error
\* that ends the call is InvalidArgument.
C2_InvalidArgumentsRejected ==
    (num_people <= 0 \/ num_simulations <= 0) =>
        /\ genCalls = 0
        /\ ProgressIndices = << >>
        /\ pc # "returned"
        /\ result = << >>
        /\ (pc = "raised" /\ error # "EOFError") => error = "InvalidArgument"

\* C10 as stated: called with valid arguments, the driver never waits for
\* an external event: until it has returned, it can always take its next
\* step on its own.
C10_NeverWaits ==
    ValidArgs => (pc = "returned" \/ ENABLED ProgramStep)

\* Steps of the driver still to take before it returns, once the prompt has
\* been answered: four per remaining trial, then the four after the loop.
StepsLeft ==
    CASE pc = "for"        -> 4 * (num_simulations - (i + 1)) + 5
      [] pc = "body"       -> 4 * (num_simulations - i) + 4
      [] pc = "generate"   -> 4 * (num_simulations - i) + 3
      [] pc = "detect"     -> 4 * (num_simulations - i) + 2
      [] pc = "after_loop" -> 4
      [] pc = "display"    -> 3
      [] pc = "summarize"  -> 2
      [] pc = "compute"    -> 1
      [] OTHER             -> 0

\* C10, amended: called with valid arguments, the driver waits once, at the
\* prompt of line 125, for the user to press Enter; once that is answered it
\* never waits again, every step brings it nearer to its return, it returns
\* after exactly num_simulations trials, and it does return.
C10_RunsToCompletionAfterPrompt ==
    /\ [](ValidArgs /\ pc \notin {"input", "returned", "raised"}
            => ENABLED ProgramStep)
    /\ [](ValidArgs /\ pc = "raised" => error = "EOFError" /\ genCalls = 0)
    /\ [](ValidArgs /\ pc = "returned" =>
            genCalls = num_simulations /\ Completed = num_simulations)
    /\ [][(ValidArgs /\ pc \notin {"start", "input"})
            => (StepsLeft' < StepsLeft /\ StepsLeft' >= 0)]_vars
    /\ (ValidArgs /\ pc = "for" /\ i = -1) ~> (pc = "returned")

\* A valid run of several trials has returned after the prompt was answered.
C10_Witness ==
    /\ pc = "returned"
    /\ ValidArgs
    /\ num_simulations >= 2
    /\ genCalls = num_simulations
    /\ \E k \in DOMAIN out : out[k].ev = "prompt"

====
